---- MODULE Spec2Model ----
(***************************************************************************)
(* A model of the live (websocket) connection of lenses-go, src/ws.go:     *)
(* the session state of LiveConnection, the readLoop goroutine, listener   *)
(* registration (On), the unbuffered errors channel, Wait and Close.       *)
(*                                                                         *)
(* Three goroutines are modelled: "caller" (registers listeners and calls  *)
(* Close), "waiter" (blocked in Wait on the interrupt signal) and "loop"   *)
(* (readLoop, started by start()).  The receiver of Err() and the network  *)
(* are the environment.  Every step is one atomic statement of the source. *)
(***************************************************************************)
EXTENDS Naturals, Sequences, FiniteSets

(* ------------------------------ bounds --------------------------------- *)
\* frames/errors the network delivers before the transport is released
MaxReads == 2
\* On calls the caller makes
MaxOn == 2
\* Close calls the caller makes
MaxClose == 2
\* characters of the generated query texts
MaxSqlLen == 3
\* positional arguments (configuration keys) of a quota delete command
MaxArgs == 2
\* On calls made by listeners from inside their callback
MaxCbOn == 1

(* ------------------------- response types ------------------------------ *)
WildcardResponse == "*"
ErrorResponse == "ERROR"
InvalidRequestResponse == "INVALIDREQUEST"
RecordMessageResponse == "RECORD"
HeartbeatResponse == "HEARTBEAT"
SuccessResponse == "SUCCESS"
StatsResponse == "STATS"
EndResponse == "END"

\* a wildcard that calls OnStats twice and never OnEnd
WildcardOrder_NoEnd ==
    << ErrorResponse, InvalidRequestResponse, RecordMessageResponse,
       HeartbeatResponse, SuccessResponse, StatsResponse, StatsResponse >>

\* the seven concrete tags, in the order On(WildcardResponse, cb) registers them
WildcardOrder ==
    << ErrorResponse, InvalidRequestResponse, RecordMessageResponse,
       HeartbeatResponse, SuccessResponse, StatsResponse, EndResponse >>

\* the response types the server sends
ConcreteTypes ==
    { ErrorResponse, InvalidRequestResponse, RecordMessageResponse,
      HeartbeatResponse, SuccessResponse, StatsResponse, EndResponse }

\* every key the listeners map is ever indexed with; a key with no entry in the
\* map has the empty list (On never stores an empty list)
ResponseTypes == ConcreteTypes \cup { WildcardResponse }

(* ------------------------------ strings -------------------------------- *)
\* a go string is modelled as the sequence of its characters

\* strings.Index(s, old): the first position where old occurs in s, 0 if none
Index(s, old) ==
    LET hits == { i \in 1..(Len(s) + 1 - Len(old)) : SubSeq(s, i, i + Len(old) - 1) = old }
    IN  IF hits = {} THEN 0 ELSE CHOOSE i \in hits : \A j \in hits : i <= j

\* strings.Replace(s, old, new, 1): the first occurrence of old replaced by new
Replace(s, old, new) ==
    LET i == Index(s, old)
    IN  IF i = 0 THEN s
        ELSE SubSeq(s, 1, i - 1) \o new \o SubSeq(s, i + Len(old), Len(s))

\* the characters url.QueryEscape leaves alone: letters, digits, - _ . ~
Unreserved ==
    { "a", "b", "c", "e", "l", "m", "o", "p", "t", "x",
      "C", "E", "F", "L", "M", "O", "R", "S", "T", "-", "_", ".", "~" }

\* the two hexadecimal digits of the byte of a character that is escaped
Hex(ch) ==
    CASE ch = " " -> << "2", "0" >>
      [] ch = "%" -> << "2", "5" >>
      [] ch = "&" -> << "2", "6" >>
      [] ch = "*" -> << "2", "A" >>
      [] ch = "+" -> << "2", "B" >>
      [] ch = "/" -> << "2", "F" >>
      [] ch = ":" -> << "3", "A" >>
      [] ch = "=" -> << "3", "D" >>

\* an escape that writes a space as %20 (url.PathEscape does)
EscapeChar_Percent(ch) ==
    IF ch \in Unreserved THEN << ch >> ELSE << "%" >> \o Hex(ch)

\* url.QueryEscape on one character: unreserved as it is, a space as "+",
\* anything else as % and two hexadecimal digits
EscapeChar(ch) ==
    IF ch \in Unreserved THEN << ch >>
    ELSE IF ch = " " THEN << "+" >>
    ELSE << "%" >> \o Hex(ch)

RECURSIVE QueryEscape(_)
\* url.QueryEscape(s)
QueryEscape(s) ==
    IF s = << >> THEN << >> ELSE EscapeChar(Head(s)) \o QueryEscape(Tail(s))

\* the fixed path and parameter names of the format strings of lines 161-164
ExecutePath == << "/", "a", "p", "i", "/", "w", "s", "/", "v", "1", "/", "s", "q", "l", "/", "e", "x", "e", "c", "u", "t", "e", "?", "s", "q", "l", "=" >>
TokenParam == << "&", "t", "o", "k", "e", "n", "=" >>
LiveParam == << "&", "l", "i", "v", "e", "=", "t", "r", "u", "e" >>
HttpsScheme == << "h", "t", "t", "p", "s", ":", "/", "/" >>
WssScheme == << "w", "s", "s", ":", "/", "/" >>
WsScheme == << "w", "s", ":", "/", "/" >>

\* a builder that leaves the scheme of the host as it is
NormalizeHost_Keep(host) == host

\* OpenLiveConnection, line 156-157: the first https:// becomes wss://; the
\* second Replace then finds no https:// left to turn into ws:// unless the
\* host holds a second one
NormalizeHost(host) ==
    Replace(Replace(host, HttpsScheme, WssScheme), HttpsScheme, WsScheme)

\* a builder that appends the live marker whatever the configuration says
LiveSuffix_Always(live) == LiveParam

\* OpenLiveConnection, line 163-165: &live=true is there when config.Live is set
LiveSuffix(live) == IF live THEN LiveParam ELSE << >>

\* OpenLiveConnection, line 156-165: the endpoint of a configuration
Endpoint(cfg) ==
    NormalizeHost(cfg.Host) \o ExecutePath \o QueryEscape(cfg.SQL)
        \o TokenParam \o cfg.Token \o LiveSuffix(cfg.Live)

Threads == { "caller", "waiter", "loop" }

NoErr == [kind |-> "none", cb |-> 0]

VARIABLES
    closed,        \* c.closed (uint32 used as a flag)
    receiveStop,   \* c.receiveStop: "open" or "closed"
    released,      \* number of times c.conn.Close() ran (the release counter)
    listeners,     \* c.listeners: type -> sequence of callbacks
    mu,            \* c.mu: "free", "r" (RLock held) or "w" (Lock held)
    errSlot,       \* the value a sender blocked on c.errors is offering, or NoErr
    pc,            \* position of each goroutine
    resp,          \* readLoop: resp.Type of the decoded frame
    callbacks,     \* readLoop: the slice looked up for resp.Type
    idx,           \* readLoop: position of the range loop over callbacks
    retpc,         \* readLoop: where sendErr returns to
    onTyp,         \* caller: typ argument of the On call in progress
    onStage,       \* caller: which of the seven On calls of a wildcard is running
    regs,          \* caller: history of the On calls made: typ, whether the call
                   \* returned, and (for a wildcard) whether it returned before any
                   \* frame was decoded
    nClose,        \* caller: Close calls made
    interruptSignal, \* Wait's channel: "nil", "quiet" (nothing sent) or "fired"
    closeRet,      \* last value returned by Close to each goroutine
    waitRet,       \* value returned by Wait
    passed,        \* number of Close calls that passed the atomic checkpoint
    effects,       \* whether the Close call of each goroutine changed anything
    nread,         \* ReadJSON calls that returned (counted up to MaxReads)
    prev,          \* history: summary of the events of the previous ReadJSON return
    log,           \* history: the events since the last ReadJSON return: the frame
                   \* decoded or the read error, invocations, faults received
    conn,          \* c.conn: "nil" (never dialled), "open", or "broken" (the
                   \* network under it failed)
    startErr,      \* the error OpenLiveConnection returned: "none" (not returned
                   \* yet), "nil" or "connect failure"
    config,        \* the LiveConfiguration passed in: Host, SQL, Token, Live
    endpoint,      \* c.endpoint
    cli,           \* a run of the quota delete commands of lenses-cli
    cbCall         \* readLoop: what the listener being invoked is doing: the call
                   \* it makes on the session (On or Close), the arguments of
                   \* its On call, and the On calls listeners have made so far

vars == << closed, receiveStop, released, listeners, mu, errSlot, pc, resp,
           callbacks, idx, retpc, onTyp, onStage, regs, nClose, interruptSignal,
           closeRet, waitRet, passed, effects, nread, prev, log, conn, startErr,
           config, endpoint, cli, cbCall >>

loopVars == << resp, callbacks, idx, retpc >>
callerVars == << onTyp, onStage, regs, nClose >>
closeVars == << closed, receiveStop, released, closeRet, passed, effects >>
hist == << prev, log >>
openVars == << conn, startErr, config, endpoint >>

\* the configuration of the example: https://example.com, SELECT * FROM t, abc, live
ExampleConfig ==
    [ Host |-> << "h", "t", "t", "p", "s", ":", "/", "/", "e", "x", "a", "m", "p", "l", "e", ".", "c", "o", "m" >>,
      SQL |-> << "S", "E", "L", "E", "C", "T", " ", "*", " ", "F", "R", "O", "M", " ", "t" >>,
      Token |-> << "a", "b", "c" >>,
      Live |-> TRUE ]

\* no quota command is running
NoCommand == [stage |-> "none"]

\* no listener has called the session
NoCallback == [op |-> "none", typ |-> "none", stage |-> 0, n |-> 0]

(* Init: the state OpenLiveConnection returns with a successful start():   *)
(* channels made, empty listeners map, closed = 0, readLoop started.       *)
Init ==
    /\ closed = 0
    /\ receiveStop = "open"
    /\ released = 0
    /\ listeners = [t \in ResponseTypes |-> << >>]
    /\ mu = "free"
    /\ errSlot = NoErr
    /\ pc = [t \in Threads |->
               CASE t = "caller" -> "idle"
                 [] t = "waiter" -> "Wait.select"
                 [] t = "loop" -> "select"]
    /\ resp = "none"
    /\ callbacks = << >>
    /\ idx = 1
    /\ retpc = "select"
    /\ onTyp = "none"
    /\ onStage = 0
    /\ regs = << >>
    /\ nClose = 0
    /\ interruptSignal \in { "nil", "quiet" }
    /\ closeRet = [t \in Threads |-> "none"]
    /\ waitRet = "none"
    /\ passed = 0
    /\ effects = [t \in Threads |-> FALSE]
    /\ nread = 0
    /\ prev = << >>
    /\ log = << >>
    /\ conn = "open"
    /\ startErr = "nil"
    /\ config = ExampleConfig
    /\ endpoint = Endpoint(config)
    /\ cli = NoCommand
    /\ cbCall = NoCallback

(* ------------------------------ Close ---------------------------------- *)
\* where goroutine t continues when its Close call returns
AfterClose(t) ==
    CASE t = "caller" -> "idle"
      [] t = "waiter" -> "Wait.return"
      [] t = "loop" -> IF cbCall.op = "Close" THEN "cb.return" ELSE "exited"

\* `return c.Close()` in Wait hands Close's result to Wait's caller
WaitResult(t, r) == IF t = "waiter" THEN r ELSE waitRet

\* a Close without the checkpoint: the flag is never seen set
AlreadyClosed_Never == FALSE

\* the atomic checkpoint: atomic.LoadUint32(&c.closed) > 0
AlreadyClosed == closed > 0

\* go: close of a closed channel panics
ClosePanics == receiveStop = "closed"

\* Close, line 321-324: load the flag; if set, return nil
CloseLoad(t) ==
    /\ pc[t] = "Close.load"
    /\ IF AlreadyClosed
         THEN /\ pc' = [pc EXCEPT ![t] = AfterClose(t)]
              /\ closeRet' = [closeRet EXCEPT ![t] = "nil"]
              /\ waitRet' = WaitResult(t, "nil")
         ELSE /\ pc' = [pc EXCEPT ![t] = "Close.store"]
              /\ UNCHANGED << closeRet, waitRet >>
    /\ UNCHANGED << closed, receiveStop, released, passed, effects, listeners, mu,
                    errSlot, loopVars, callerVars, interruptSignal, openVars, cli, cbCall, nread, hist >>

\* a checkpoint that counts the closers: atomic.AddUint32(&c.closed, 1)
CloseStore_Add(t) ==
    /\ pc[t] = "Close.store"
    /\ closed' = closed + 1
    /\ passed' = passed + 1
    /\ effects' = [effects EXCEPT ![t] = TRUE]
    /\ pc' = [pc EXCEPT ![t] = "Close.signal"]
    /\ UNCHANGED << receiveStop, released, closeRet, waitRet, listeners, mu,
                    errSlot, loopVars, callerVars, interruptSignal, openVars, cli, cbCall,
                    nread, hist >>

\* Close, line 326: atomic.StoreUint32(&c.closed, 1)
CloseStore(t) ==
    /\ pc[t] = "Close.store"
    /\ closed' = 1
    /\ passed' = passed + 1
    /\ effects' = [effects EXCEPT ![t] = TRUE]
    /\ pc' = [pc EXCEPT ![t] = "Close.signal"]
    /\ UNCHANGED << receiveStop, released, closeRet, waitRet, listeners, mu,
                    errSlot, loopVars, callerVars, interruptSignal, openVars, cli, cbCall, nread, hist >>

\* Close, line 327: close(c.receiveStop)
CloseSignal(t) ==
    /\ pc[t] = "Close.signal"
    /\ IF ClosePanics
         THEN /\ pc' = [pc EXCEPT ![t] = "panicked"]
              /\ UNCHANGED receiveStop
         ELSE /\ pc' = [pc EXCEPT ![t] = "Close.release"]
              /\ receiveStop' = "closed"
    /\ UNCHANGED << closed, released, closeRet, waitRet, passed, effects, listeners,
                    mu, errSlot, loopVars, callerVars, interruptSignal, openVars, cli, cbCall, nread, hist >>

\* Close, line 328: return c.conn.Close(); the transport reports nil or a fault.
\* On a session whose dial failed c.conn is nil and the call panics.
CloseRelease(t) ==
    /\ pc[t] = "Close.release"
    /\ IF conn = "nil"
         THEN /\ pc' = [pc EXCEPT ![t] = "panicked"]
              /\ UNCHANGED << released, closeRet, waitRet >>
         ELSE /\ released' = released + 1
              /\ \E r \in { "nil", "fault" } :
                    /\ closeRet' = [closeRet EXCEPT ![t] = r]
                    /\ waitRet' = WaitResult(t, r)
              /\ pc' = [pc EXCEPT ![t] = AfterClose(t)]
    /\ UNCHANGED << closed, receiveStop, passed, effects, listeners, mu, errSlot,
                    loopVars, callerVars, interruptSignal, openVars, cli, cbCall, nread, hist >>

(* ------------------------------- Wait ---------------------------------- *)
\* the operating system delivers the interrupt (nothing can arrive on a nil channel)
Interrupt ==
    /\ interruptSignal = "quiet"
    /\ interruptSignal' = "fired"
    /\ UNCHANGED << closeVars, waitRet, listeners, mu, errSlot, pc, loopVars,
                    callerVars, nread, hist, openVars, cli, cbCall >>

\* a select that does not wait for the signal (as with a default case)
SignalReady_Always == TRUE

\* case <-interruptSignal: a receive is ready only once the signal was sent
SignalReady == interruptSignal = "fired"

\* Wait, line 203-205: select on the signal, then call Close
WaitSelect ==
    /\ pc["waiter"] = "Wait.select"
    /\ SignalReady
    /\ pc' = [pc EXCEPT !["waiter"] = "Close.load"]
    /\ effects' = [effects EXCEPT !["waiter"] = FALSE]
    /\ UNCHANGED << closed, receiveStop, released, closeRet, passed, waitRet,
                    listeners, mu, errSlot, loopVars, callerVars, interruptSignal, openVars, cli, cbCall,
                    nread, hist >>

(* ------------------------------ caller --------------------------------- *)
\* the caller calls c.Close()
CallClose ==
    /\ pc["caller"] = "idle"
    /\ nClose < MaxClose
    /\ nClose' = nClose + 1
    /\ pc' = [pc EXCEPT !["caller"] = "Close.load"]
    /\ effects' = [effects EXCEPT !["caller"] = FALSE]
    /\ UNCHANGED << closed, receiveStop, released, closeRet, passed, waitRet,
                    listeners, mu, errSlot, loopVars, onTyp, onStage, regs,
                    interruptSignal, openVars, cli, cbCall, nread, hist >>

\* On calls made; the callback of the k-th call is named k
nOn == Len(regs)

\* the caller calls c.On(typ, cb) with a callback not registered before;
\* callbacks are named by the number of the On call that brings them
CallOn(typ) ==
    /\ pc["caller"] = "idle"
    /\ nOn < MaxOn
    /\ regs' = Append(regs, [typ |-> typ, done |-> FALSE, early |-> FALSE])
    /\ onTyp' = typ
    /\ onStage' = IF typ = WildcardResponse THEN 1 ELSE 0
    /\ pc' = [pc EXCEPT !["caller"] = "On.lock"]
    /\ UNCHANGED << closeVars, waitRet, listeners, mu, errSlot, loopVars, nClose,
                    interruptSignal, openVars, cli, cbCall, nread, hist >>

\* an On without the wildcard branch: the callback is stored under "*"
OnTarget_NoSugar == onTyp

\* On, line 276-285: a wildcard is seven On calls, one per concrete type, in order
OnTarget == IF onTyp = WildcardResponse THEN WildcardOrder[onStage] ELSE onTyp

\* On, line 287: c.mu.Lock()
OnLock ==
    /\ pc["caller"] = "On.lock"
    /\ mu = "free"
    /\ mu' = "w"
    /\ pc' = [pc EXCEPT !["caller"] = "On.append"]
    /\ UNCHANGED << closeVars, waitRet, listeners, errSlot, loopVars, callerVars,
                    interruptSignal, openVars, cli, cbCall, nread, hist >>

\* a registration that puts the new callback in front
Registered_Prepend(ls, typ, cb) == [ls EXCEPT ![typ] = << cb >> \o @]

\* On, line 288: c.listeners[typ] = append(c.listeners[typ], cb)
Registered(ls, typ, cb) == [ls EXCEPT ![typ] = Append(@, cb)]

\* On, line 288-289: append and Unlock; then the next of the seven calls, or return
OnAppend ==
    /\ pc["caller"] = "On.append"
    /\ listeners' = Registered(listeners, OnTarget, nOn)
    /\ mu' = "free"
    /\ IF onTyp = WildcardResponse /\ onStage < Len(WildcardOrder)
         THEN /\ onStage' = onStage + 1
              /\ pc' = [pc EXCEPT !["caller"] = "On.lock"]
              /\ UNCHANGED << onTyp, regs >>
         ELSE /\ onStage' = 0
              /\ onTyp' = "none"
              /\ regs' = [regs EXCEPT ![nOn].done = TRUE,
                                       ![nOn].early = (onTyp = WildcardResponse /\ resp = "none")]
              /\ pc' = [pc EXCEPT !["caller"] = "idle"]
    /\ UNCHANGED << closeVars, waitRet, errSlot, loopVars, nClose,
                    interruptSignal, openVars, cli, cbCall, nread, hist >>

(* ----------------------------- readLoop -------------------------------- *)
Event(e, tag, cb, res) == [e |-> e, tag |-> tag, cb |-> cb, res |-> res]

IsRead(ev) == ev.e \in { "frame", "rerr" }
IsInv(ev) == ev.e = "inv"
IsFailure(ev) == IsInv(ev) /\ ev.res = "fault"

\* what the history keeps of the events of a read once the next read returns: of
\* a frame, its type, the number of invocations made for it and whether one of
\* them failed; of a read error, all of it
Summary(l) ==
    IF l # << >> /\ l[1].e = "frame"
      THEN << Event("frame", l[1].tag, Len(SelectSeq(l, IsInv)),
                    IF SelectSeq(l, IsFailure) # << >> THEN "fault" ELSE "ok") >>
      ELSE l

\* a send that does not wait for a receiver (select with default): the fault is lost
sendErr_NonBlocking(err, next) ==
    /\ pc' = [pc EXCEPT !["loop"] = next]
    /\ UNCHANGED << errSlot, retpc >>

\* sendErr, line 220-223: c.errors <- err blocks until a receiver takes err
sendErr(err, next) ==
    /\ pc' = [pc EXCEPT !["loop"] = "sendErr"]
    /\ errSlot' = err
    /\ retpc' = next

\* a loop that never looks at the termination signal
StopObserved_Never == FALSE

\* case <-c.receiveStop is ready once the channel is closed
StopObserved == receiveStop = "closed"

\* readLoop, line 228-232: the non-blocking check of the termination signal;
\* `return` runs the deferred c.Close() of line 226
LoopSelect ==
    /\ pc["loop"] = "select"
    /\ pc' = [pc EXCEPT !["loop"] = IF StopObserved THEN "Close.load" ELSE "read"]
    /\ UNCHANGED << closeVars, waitRet, listeners, mu, errSlot, loopVars,
                    callerVars, interruptSignal, openVars, cli, cbCall, nread, hist >>

\* a read error that ends the loop: `return` instead of sendErr and `continue`
ReadFailed_Return(kind) ==
    /\ pc' = [pc EXCEPT !["loop"] = "Close.load"]
    /\ UNCHANGED << errSlot, retpc >>

\* readLoop, line 235-243: a read error is sent to c.errors and the loop continues;
\* a *net.OpError as it is ("net"), anything else wrapped as "live: read json" ("json")
ReadFailed(kind) == sendErr([kind |-> kind, cb |-> 0], "select")

\* what c.conn.ReadJSON can return: a frame of a concrete type while the network
\* still delivers, or an error; on a broken transport every read reports the
\* transport fault
ReadOutcomes(types) ==
    IF conn = "broken" THEN { "net" }
    ELSE { "net", "json" } \cup (IF nread < MaxReads THEN types ELSE {})

\* the network under the connection fails for good
TransportBreaks ==
    /\ conn = "open"
    /\ released = 0
    /\ conn' = "broken"
    /\ UNCHANGED << closeVars, waitRet, listeners, mu, errSlot, pc, loopVars,
                    callerVars, interruptSignal, nread, hist, startErr, config,
                    endpoint, cli, cbCall >>

\* readLoop, line 233-245: ReadJSON returns.  It blocks while nothing arrives and
\* the transport is open; releasing the transport unblocks it, and on a broken
\* transport it returns at once.
ReadJSON(types) ==
    /\ pc["loop"] = "read"
    /\ nread < MaxReads \/ released > 0 \/ conn = "broken"
    /\ nread' = IF nread < MaxReads THEN nread + 1 ELSE nread
    /\ prev' = Summary(log)
    /\ \E o \in ReadOutcomes(types) :
          IF o \in ConcreteTypes
            THEN /\ resp' = o
                 /\ log' = << Event("frame", o, 0, "-") >>
                 /\ pc' = [pc EXCEPT !["loop"] = "rlock"]
                 /\ UNCHANGED << errSlot, retpc >>
            ELSE /\ log' = << Event("rerr", "-", 0, o) >>
                 /\ ReadFailed(o)
                 /\ UNCHANGED resp
    /\ UNCHANGED << closeVars, waitRet, listeners, mu, callbacks, idx, callerVars,
                    interruptSignal, openVars, cli, cbCall >>

\* a receiver of c.Err() takes the fault the loop is sending
RecvErr ==
    /\ pc["loop"] = "sendErr"
    /\ log' = Append(log, Event("recv", "-", errSlot.cb, errSlot.kind))
    /\ errSlot' = NoErr
    /\ pc' = [pc EXCEPT !["loop"] = retpc]
    /\ UNCHANGED << closeVars, waitRet, listeners, mu, loopVars, callerVars,
                    interruptSignal, openVars, cli, cbCall, nread, prev >>

\* readLoop, line 248: c.mu.RLock()
LoopRLock ==
    /\ pc["loop"] = "rlock"
    /\ mu # "w"
    /\ mu' = "r"
    /\ pc' = [pc EXCEPT !["loop"] = "lookup"]
    /\ UNCHANGED << closeVars, waitRet, listeners, errSlot, loopVars, callerVars,
                    interruptSignal, openVars, cli, cbCall, nread, hist >>

\* a lookup that misses the registration made last
Lookup_Stale(ls, typ) == SubSeq(ls[typ], 1, Len(ls[typ]) - 1)

\* readLoop, line 249: callbacks, ok := c.listeners[resp.Type]
Lookup(ls, typ) == ls[typ]

\* a lookup that keeps the read lock for the dispatch (as `defer c.mu.RUnlock()`)
LoopLookup_HoldsLock ==
    /\ pc["loop"] = "lookup"
    /\ callbacks' = Lookup(listeners, resp)
    /\ idx' = 1
    /\ pc' = [pc EXCEPT !["loop"] = "dispatch"]
    /\ UNCHANGED << closeVars, waitRet, listeners, mu, errSlot, resp, retpc,
                    callerVars, interruptSignal, openVars, cli, cbCall, nread, hist >>

\* readLoop, line 249-250: the lookup and RUnlock
LoopLookup ==
    /\ pc["loop"] = "lookup"
    /\ callbacks' = Lookup(listeners, resp)
    /\ idx' = 1
    /\ mu' = "free"
    /\ pc' = [pc EXCEPT !["loop"] = "dispatch"]
    /\ UNCHANGED << closeVars, waitRet, listeners, errSlot, resp, retpc,
                    callerVars, interruptSignal, openVars, cli, cbCall, nread, hist >>

\* line 255 as it was before it was commented out: `return err`, which breaks
\* the loop on the first failure without sending the error
ListenerFailed_Return(cb) ==
    /\ pc' = [pc EXCEPT !["loop"] = "Close.load"]
    /\ UNCHANGED << errSlot, retpc >>

\* a listener's error that is sent and then breaks the range loop
ListenerFailed_Break(cb) == sendErr([kind |-> "cb", cb |-> cb], "select")

\* readLoop, line 254-257: a listener's error is sent to c.errors; no break
ListenerFailed(cb) == sendErr([kind |-> "cb", cb |-> cb], "dispatch")

\* a range loop that also stops when the termination signal is raised
DispatchDone_OrStopped == idx > Len(callbacks) \/ receiveStop = "closed"

\* a range loop that breaks after the first callback
DispatchDone_AfterFirst == idx > Len(callbacks) \/ idx > 1

\* readLoop, line 253: the range over callbacks is exhausted
DispatchDone == idx > Len(callbacks)

\* readLoop, line 252-259: the range loop calls the next callback, which returns
\* nil or an error; after the last one the for loop starts over
LoopDispatch ==
    /\ pc["loop"] = "dispatch"
    /\ IF DispatchDone
         THEN /\ pc' = [pc EXCEPT !["loop"] = "select"]
              /\ UNCHANGED << idx, errSlot, retpc, log >>
         ELSE /\ idx' = idx + 1
              /\ \E r \in { "nil", "fault" } :
                    /\ log' = Append(log, Event("inv", resp, callbacks[idx], r))
                    /\ IF r = "fault"
                         THEN ListenerFailed(callbacks[idx])
                         ELSE UNCHANGED << pc, errSlot, retpc >>
    /\ UNCHANGED << closeVars, waitRet, listeners, mu, resp, callbacks,
                    callerVars, interruptSignal, openVars, cli, cbCall, nread, prev >>

(* ----------------------- listeners calling back ------------------------ *)
\* A listener runs on readLoop's goroutine (line 254) and may call the session
\* it was registered on.  The callback of the k-th On call made by a listener
\* is named MaxOn + k.
CbOnId == MaxOn + cbCall.n

\* readLoop, line 254: cb(resp), where cb calls c.On(typ, f) with a new f
CallbackCallsOn(typ) ==
    /\ pc["loop"] = "dispatch"
    /\ idx <= Len(callbacks)
    /\ cbCall.n < MaxCbOn
    /\ cbCall' = [op |-> "On", typ |-> typ,
                  stage |-> IF typ = WildcardResponse THEN 1 ELSE 0,
                  n |-> cbCall.n + 1]
    /\ log' = Append(log, Event("on", typ, MaxOn + cbCall.n + 1, "-"))
    /\ pc' = [pc EXCEPT !["loop"] = "cb.On.lock"]
    /\ UNCHANGED << closeVars, waitRet, listeners, mu, errSlot, loopVars,
                    callerVars, interruptSignal, openVars, cli, nread, prev >>

\* On, line 276-285, for the On call of a listener
CbOnTarget ==
    IF cbCall.typ = WildcardResponse THEN WildcardOrder[cbCall.stage] ELSE cbCall.typ

\* On, line 287: c.mu.Lock(), on readLoop's goroutine
CbOnLock ==
    /\ pc["loop"] = "cb.On.lock"
    /\ mu = "free"
    /\ mu' = "w"
    /\ pc' = [pc EXCEPT !["loop"] = "cb.On.append"]
    /\ UNCHANGED << closeVars, waitRet, listeners, errSlot, loopVars, callerVars,
                    interruptSignal, openVars, cli, cbCall, nread, hist >>

\* On, line 288-289, on readLoop's goroutine: append and Unlock; then the next
\* of the seven calls of a wildcard, or On returns to the listener
CbOnAppend ==
    /\ pc["loop"] = "cb.On.append"
    /\ listeners' = Registered(listeners, CbOnTarget, CbOnId)
    /\ mu' = "free"
    /\ IF cbCall.typ = WildcardResponse /\ cbCall.stage < Len(WildcardOrder)
         THEN /\ cbCall' = [cbCall EXCEPT !.stage = @ + 1]
              /\ pc' = [pc EXCEPT !["loop"] = "cb.On.lock"]
         ELSE /\ cbCall' = cbCall
              /\ pc' = [pc EXCEPT !["loop"] = "cb.return"]
    /\ UNCHANGED << closeVars, waitRet, errSlot, loopVars, callerVars,
                    interruptSignal, openVars, cli, nread, hist >>

\* readLoop, line 254: cb(resp), where cb calls c.Close()
CallbackCallsClose ==
    /\ pc["loop"] = "dispatch"
    /\ idx <= Len(callbacks)
    /\ cbCall' = [cbCall EXCEPT !.op = "Close"]
    /\ effects' = [effects EXCEPT !["loop"] = FALSE]
    /\ log' = Append(log, Event("close", "-", callbacks[idx], "-"))
    /\ pc' = [pc EXCEPT !["loop"] = "Close.load"]
    /\ UNCHANGED << closed, receiveStop, released, closeRet, passed, waitRet,
                    listeners, mu, errSlot, loopVars, callerVars, interruptSignal,
                    openVars, cli, nread, prev >>

\* readLoop, line 254-257: the listener that called the session returns nil or
\* an error, and the range loop goes on
CallbackReturns ==
    /\ pc["loop"] = "cb.return"
    /\ idx' = idx + 1
    /\ cbCall' = [cbCall EXCEPT !.op = "none", !.typ = "none", !.stage = 0]
    /\ \E r \in { "nil", "fault" } :
          /\ log' = Append(log, Event("inv", resp, callbacks[idx], r))
          /\ IF r = "fault"
               THEN ListenerFailed(callbacks[idx])
               ELSE /\ pc' = [pc EXCEPT !["loop"] = "dispatch"]
                    /\ UNCHANGED << errSlot, retpc >>
    /\ UNCHANGED << closeVars, waitRet, listeners, mu, resp, callbacks,
                    callerVars, interruptSignal, openVars, cli, nread, prev >>

(* -------------------------- session builder ---------------------------- *)
\* a start that launches readLoop before it looks at the result of the dial
start_GoBeforeDial(dialed) ==
    /\ conn' = IF dialed THEN "open" ELSE "nil"
    /\ startErr' = IF dialed THEN "nil" ELSE "connect failure"
    /\ pc' = [pc EXCEPT !["caller"] = "idle", !["waiter"] = "Wait.select",
                         !["loop"] = "select"]

\* start, line 178-199: dial; on failure return the wrapped error, c.conn stays
\* nil and no goroutine is started; on success set c.conn, `go c.readLoop()`,
\* return nil.  Once OpenLiveConnection has returned, its caller holds c (also
\* next to an error) and can register listeners, Wait and Close.
start(dialed) ==
    /\ conn' = IF dialed THEN "open" ELSE "nil"
    /\ startErr' = IF dialed THEN "nil" ELSE "connect failure"
    /\ pc' = [pc EXCEPT !["caller"] = "idle", !["waiter"] = "Wait.select",
                         !["loop"] = IF dialed THEN "select" ELSE "notstarted"]

\* OpenLiveConnection, line 147-176: build the endpoint, make the session with an
\* empty registry and open channels, and return c, c.start()
OpenLiveConnection ==
    /\ pc["caller"] = "Open"
    /\ endpoint' = Endpoint(config)
    /\ \E dialed \in BOOLEAN : start(dialed)
    /\ UNCHANGED << closeVars, waitRet, listeners, mu, errSlot, loopVars, callerVars,
                    interruptSignal, nread, hist, config, cli, cbCall >>

(* ------------------------- quota delete commands ----------------------- *)
\* a message of the command line, as the sequence of its characters
QuotaForUser == << "Q", "u", "o", "t", "a", " ", "f", "o", "r", " ", "u", "s", "e", "r", " " >>
QuotaForClient == << "Q", "u", "o", "t", "a", " ", "f", "o", "r", " ", "c", "l", "i", "e", "n", "t", " " >>
DeletedForAllClients == << " ", "d", "e", "l", "e", "t", "e", "d", " ", "f", "o", "r", " ", "a", "l", "l", " ", "c", "l", "i", "e", "n", "t", "s" >>
DeletedForClient == << " ", "d", "e", "l", "e", "t", "e", "d", " ", "f", "o", "r", " ", "c", "l", "i", "e", "n", "t", " " >>
DefaultUserQuota == << "D", "e", "f", "a", "u", "l", "t", " ", "u", "s", "e", "r", " ", "q", "u", "o", "t", "a", " " >>
DefaultClientQuota == << "D", "e", "f", "a", "u", "l", "t", " ", "c", "l", "i", "e", "n", "t", " ", "q", "u", "o", "t", "a", " " >>
Space == << " " >>
Delete == << "d", "e", "l", "e", "t", "e" >>
Update == << "u", "p", "d", "a", "t", "e" >>
LetterD == << "d" >>
AllClients == << "a", "l", "l" >>
Star == << "*" >>

\* line 137-142 and 250-255: actionMsg is "delete", "update" with arguments
actionMsg(args) == IF Len(args) > 0 THEN Update ELSE Delete

\* `quota users delete`, line 146-179: what a run whose remote call succeeded
\* prints for the target the flags select
UsersDeleteInfo(user, clientID, args) ==
    IF user # << >>
      THEN IF clientID # << >>
             THEN IF clientID = AllClients \/ clientID = Star
                    THEN QuotaForUser \o user \o DeletedForAllClients
                    ELSE QuotaForUser \o user \o DeletedForClient \o clientID
             ELSE QuotaForUser \o user \o Space \o actionMsg(args) \o LetterD
      ELSE DefaultUserQuota \o actionMsg(args) \o LetterD

\* `quota clients delete`, line 259-272
ClientsDeleteInfo(id, args) ==
    IF id # << >> /\ id # AllClients /\ id # Star
      THEN QuotaForClient \o id \o Space \o actionMsg(args) \o LetterD
      ELSE DefaultClientQuota \o actionMsg(args) \o LetterD

\* the remote operation a run of `quota users delete` calls
UsersDeleteCall(user, clientID) ==
    IF user # << >>
      THEN IF clientID # << >>
             THEN IF clientID = AllClients \/ clientID = Star
                    THEN "DeleteQuotaForUserAllClients"
                    ELSE "DeleteQuotaForUserClient"
             ELSE "DeleteQuotaForUser"
      ELSE "DeleteQuotaForAllUsers"

\* the remote operation a run of `quota clients delete` calls
ClientsDeleteCall(id) ==
    IF id # << >> /\ id # AllClients /\ id # Star
      THEN "DeleteQuotaForClient"
      ELSE "DeleteQuotaForAllClients"

\* deleteCommand.RunE of `quota users`, line 136-180: one remote call, which
\* succeeds or fails; on success the message is printed, on failure the error
\* is returned and nothing is printed by RunE
UsersDelete ==
    /\ cli.stage = "parsed"
    /\ cli.group = "users"
    /\ \E ok \in BOOLEAN :
          cli' = [cli EXCEPT !.stage = "done",
                             !.call = UsersDeleteCall(cli.user, cli.clientID),
                             !.ret = IF ok THEN "nil" ELSE "err",
                             !.out = IF ok THEN UsersDeleteInfo(cli.user, cli.clientID, cli.args)
                                     ELSE << >>]
    /\ UNCHANGED << closeVars, waitRet, listeners, mu, errSlot, pc, loopVars,
                    callerVars, interruptSignal, nread, hist, openVars, cbCall >>

\* deleteCommand.RunE of `quota clients`, line 249-273
ClientsDelete ==
    /\ cli.stage = "parsed"
    /\ cli.group = "clients"
    /\ \E ok \in BOOLEAN :
          cli' = [cli EXCEPT !.stage = "done",
                             !.call = ClientsDeleteCall(cli.clientID),
                             !.ret = IF ok THEN "nil" ELSE "err",
                             !.out = IF ok THEN ClientsDeleteInfo(cli.clientID, cli.args)
                                     ELSE << >>]
    /\ UNCHANGED << closeVars, waitRet, listeners, mu, errSlot, pc, loopVars,
                    callerVars, interruptSignal, nread, hist, openVars, cbCall >>

(* --------------------------- specification ----------------------------- *)
\* Spec: the life cycle.  All three goroutines may close; the caller registers
\* RECORD listeners; the network delivers RECORD and HEARTBEAT frames.
LifeOnTypes == { RecordMessageResponse }
LifeFrameTypes == { RecordMessageResponse, HeartbeatResponse }

Next ==
    \/ \E t \in Threads : CloseLoad(t)
    \/ \E t \in Threads : CloseStore(t)
    \/ \E t \in Threads : CloseSignal(t)
    \/ \E t \in Threads : CloseRelease(t)
    \/ Interrupt
    \/ WaitSelect
    \/ CallClose
    \/ \E typ \in LifeOnTypes : CallOn(typ)
    \/ OnLock
    \/ OnAppend
    \/ LoopSelect
    \/ ReadJSON(LifeFrameTypes)
    \/ RecvErr
    \/ LoopRLock
    \/ LoopLookup
    \/ LoopDispatch

Spec == Init /\ [][Next]_vars

\* DispatchSpec: registration and dispatch on a session that stays open.  The
\* caller registers wildcard and RECORD listeners and does not call Close; frames
\* of all seven types arrive; Wait is given a nil channel.
DispatchOnTypes == { WildcardResponse, RecordMessageResponse }

InitDispatch == Init /\ interruptSignal = "nil"

NextDispatch ==
    \/ \E typ \in DispatchOnTypes : CallOn(typ)
    \/ OnLock
    \/ OnAppend
    \/ LoopSelect
    \/ ReadJSON(ConcreteTypes)
    \/ RecvErr
    \/ LoopRLock
    \/ LoopLookup
    \/ LoopDispatch

DispatchSpec == InitDispatch /\ [][NextDispatch]_vars

\* FairSpec: the life cycle under the scheduling go guarantees: a goroutine that
\* can run does run.  readLoop takes its next step, a started Close call and a
\* started On call finish, and a read on a released transport returns.  Nothing
\* makes the network deliver a frame, the owner call anything, the interrupt
\* arrive, or anybody receive from Err().
LoopStep ==
    \/ LoopSelect
    \/ ((released > 0 \/ conn = "broken") /\ ReadJSON(LifeFrameTypes))
    \/ LoopRLock
    \/ LoopLookup
    \/ LoopDispatch

CloseStep(t) == CloseLoad(t) \/ CloseStore(t) \/ CloseSignal(t) \/ CloseRelease(t)

Fairness ==
    /\ WF_vars(LoopStep)
    /\ \A t \in Threads : WF_vars(CloseStep(t))
    /\ WF_vars(OnLock \/ OnAppend)
    /\ WF_vars(WaitSelect)

FairSpec == Init /\ [][Next]_vars /\ Fairness

\* BrokenSpec: the life cycle with a network that can fail at any moment, under
\* the same scheduling, and with an owner who keeps receiving from Err().
NextBroken ==
    \/ TransportBreaks
    \/ Next

BrokenSpec == Init /\ [][NextBroken]_vars /\ Fairness /\ WF_vars(RecvErr)

\* OpenSpec: the life cycle from the call of OpenLiveConnection on, for the
\* configuration of the example: the dial succeeds or fails, and the caller goes
\* on with the session it was handed either way.
PreOpenSession ==
    /\ closed = 0
    /\ receiveStop = "open"
    /\ released = 0
    /\ listeners = [t \in ResponseTypes |-> << >>]
    /\ mu = "free"
    /\ errSlot = NoErr
    /\ pc = [t \in Threads |-> IF t = "caller" THEN "Open" ELSE "notstarted"]
    /\ resp = "none"
    /\ callbacks = << >>
    /\ idx = 1
    /\ retpc = "select"
    /\ onTyp = "none"
    /\ onStage = 0
    /\ regs = << >>
    /\ nClose = 0
    /\ interruptSignal \in { "nil", "quiet" }
    /\ closeRet = [t \in Threads |-> "none"]
    /\ waitRet = "none"
    /\ passed = 0
    /\ effects = [t \in Threads |-> FALSE]
    /\ nread = 0
    /\ prev = << >>
    /\ log = << >>
    /\ conn = "nil"
    /\ startErr = "none"
    /\ endpoint = << >>
    /\ cbCall = NoCallback

PreOpen == PreOpenSession /\ cli = NoCommand

InitOpen == PreOpen /\ config = ExampleConfig

NextOpen ==
    \/ OpenLiveConnection
    \/ Next

OpenSpec == InitOpen /\ [][NextOpen]_vars

\* EndpointSpec: OpenLiveConnection on every configuration of a bounded set:
\* hosts with and without the https:// scheme, query texts of up to MaxSqlLen
\* characters (and the example's), two tokens, live or not.
Hosts ==
    { << "h", "t", "t", "p", "s", ":", "/", "/", "e", "x", "a", "m", "p", "l", "e", ".", "c", "o", "m" >>,
      << "h", "t", "t", "p", ":", "/", "/", "e", "x", "a", "m", "p", "l", "e", ".", "c", "o", "m" >>,
      << "w", "s", "s", ":", "/", "/", "e", "x", "a", "m", "p", "l", "e", ".", "c", "o", "m" >>,
      << "e", "x", "a", "m", "p", "l", "e", ".", "c", "o", "m" >>,
      << "h", "t", "t", "p", "s", ":", "/", "/", "a", "/", "h", "t", "t", "p", "s", ":", "/", "/", "b" >> }

SqlAlphabet == { "t", " ", "*", "+", "%", "&" }

SQLs ==
    { ExampleConfig.SQL } \cup UNION { [1..n -> SqlAlphabet] : n \in 0..MaxSqlLen }

Tokens == { << "a", "b", "c" >>, << "x" >> }

Configs == [ Host : Hosts, SQL : SQLs, Token : Tokens, Live : BOOLEAN ]

InitEndpoint == PreOpen /\ config \in Configs /\ interruptSignal = "nil"

NextEndpoint == OpenLiveConnection

EndpointSpec == InitEndpoint /\ [][NextEndpoint]_vars

\* QuotaSpec: one run of `quota users delete` or `quota clients delete` for
\* every target the flags can select and up to MaxArgs positional arguments.
QuotaUsers == { << >>, << "u" >> }
QuotaClients == { << >>, AllClients, Star, << "c" >> }
ConfigKeys == { "producer_byte_rate", "consumer_byte_rate", "request_percentage" }
QuotaArgs == UNION { [1..n -> ConfigKeys] : n \in 0..MaxArgs }

\* the flags and arguments as cobra hands them to RunE; `quota clients delete`
\* has no --quota-user flag
Parsed(group, user, clientID, args) ==
    [ stage |-> "parsed", group |-> group, user |-> user, clientID |-> clientID,
      args |-> args, call |-> "none", ret |-> "none", out |-> << >> ]

InitQuota ==
    /\ PreOpenSession
    /\ config = ExampleConfig
    /\ interruptSignal = "nil"
    /\ cli \in { Parsed("users", u, c, a) : u \in QuotaUsers, c \in QuotaClients, a \in QuotaArgs }
                 \cup { Parsed("clients", << >>, c, a) : c \in QuotaClients, a \in QuotaArgs }

NextQuota ==
    \/ UsersDelete
    \/ ClientsDelete

QuotaSpec == InitQuota /\ [][NextQuota]_vars

\* CallbackSpec: listeners that call On (for RECORD or the wildcard) and Close
\* on the session from inside their callback, while the owner registers
\* listeners from its own goroutine.  The listeners are the only ones to call
\* Close; Wait is given a nil channel.
CbOnTypes == { RecordMessageResponse, WildcardResponse }

InitCallback == Init /\ interruptSignal = "nil"

NextCallback ==
    \/ \E typ \in CbOnTypes : CallbackCallsOn(typ)
    \/ CbOnLock
    \/ CbOnAppend
    \/ CallbackCallsClose
    \/ CallbackReturns
    \/ CloseLoad("loop")
    \/ CloseStore("loop")
    \/ CloseSignal("loop")
    \/ CloseRelease("loop")
    \/ \E typ \in LifeOnTypes : CallOn(typ)
    \/ OnLock
    \/ OnAppend
    \/ LoopSelect
    \/ ReadJSON(LifeFrameTypes)
    \/ RecvErr
    \/ LoopRLock
    \/ LoopLookup
    \/ LoopDispatch

CallbackSpec == InitCallback /\ [][NextCallback]_vars

(* ============================== claims ================================= *)
InClose(t) == pc[t] \in { "Close.load", "Close.store", "Close.signal", "Close.release" }

\* C1: when Close is called N>1 times one after another (here: by the caller,
\* while Wait has not been interrupted), calls 2..N change nothing and return nil,
\* and once the first call has returned the transport has been released exactly
\* once (the deferred Close of readLoop included).
C1_SequentialCloseIdempotent ==
    pc["waiter"] = "Wait.select" =>
        /\ nClose >= 2 =>
              /\ ~effects["caller"]
              /\ pc["caller"] \notin { "Close.store", "Close.signal", "Close.release", "panicked" }
              /\ pc["caller"] # "Close.load" => closeRet["caller"] = "nil"
        /\ (nClose >= 2 \/ (nClose = 1 /\ ~InClose("caller"))) => released = 1

C1_Witness ==
    /\ pc["waiter"] = "Wait.select"
    /\ nClose = MaxClose
    /\ pc["caller"] = "idle"
    /\ closeRet["caller"] = "nil"
    /\ pc["loop"] = "exited"
    /\ released = 1

\* C2: under every interleaving of concurrent Close calls exactly one caller
\* performs the release sequence: at most one call passes the checkpoint, the
\* termination signal is never raised twice (no close of a closed channel) and the
\* transport is never released twice.
C2_SingleReleaseSequence ==
    /\ passed <= 1
    /\ \A t \in Threads : pc[t] # "panicked"
    /\ released <= 1

\* C10: Wait neither returns nor closes the session before the interrupt signal
\* fires (so never on a nil channel); when it returns, it returns what its Close
\* call returned.
C10_WaitUntilSignal ==
    /\ interruptSignal # "fired" =>
          /\ pc["waiter"] = "Wait.select"
          /\ ~effects["waiter"]
    /\ pc["waiter"] # "Wait.return" => waitRet = "none"
    /\ pc["waiter"] = "Wait.return" =>
          /\ waitRet \in { "nil", "fault" }
          /\ waitRet = closeRet["waiter"]

C10_Witness ==
    /\ interruptSignal = "fired"
    /\ pc["waiter"] = "Wait.return"
    /\ effects["waiter"]
    /\ waitRet = "fault"

(* ----------------------- helpers over the history ---------------------- *)
\* the last ReadJSON return decoded a frame
CurIsFrame == log # << >> /\ log[1].e = "frame"

\* the invocations made for the current frame, in order
InvEvents == SelectSeq(log, IsInv)
InvCbs == [n \in 1..Len(InvEvents) |-> InvEvents[n].cb]

\* the read before the last one decoded a frame
PrevIsFrame == prev # << >> /\ prev[1].e = "frame"

LoopInLookup == pc["loop"] \in { "rlock", "lookup" }
LoopInDispatch ==
    \/ LoopInLookup
    \/ pc["loop"] = "dispatch"
    \/ pc["loop"] = "sendErr" /\ retpc = "dispatch"
LoopLeft == InClose("loop") \/ pc["loop"] = "exited"

IsPrefix(a, b) == Len(a) <= Len(b) /\ a = SubSeq(b, 1, Len(a))

\* the invocations of the current frame are the callbacks looked up for its
\* type, in order, up to the position of the range loop; all of them once the
\* dispatch is over
DispatchFollowsLookup ==
    (CurIsFrame /\ ~LoopInLookup) =>
        /\ resp = log[1].tag
        /\ IsPrefix(callbacks, listeners[resp])
        /\ idx <= Len(callbacks) + 1
        /\ InvCbs = SubSeq(callbacks, 1, idx - 1)
        /\ ~LoopInDispatch => idx > Len(callbacks)

EarlyWildcards ==
    { k \in 1..Len(regs) :
        regs[k].typ = WildcardResponse /\ regs[k].done /\ regs[k].early }

TimesInvoked(k) == Cardinality({ j \in 1..Len(InvCbs) : InvCbs[j] = k })

\* C4: a callback registered under the wildcard before any message arrives is
\* invoked exactly once for every message decoded afterwards, whichever of the
\* seven types it carries (never twice, and once when the dispatch is over).
C4_WildcardOncePerMessage ==
    \A k \in EarlyWildcards :
        CurIsFrame =>
            /\ TimesInvoked(k) <= 1
            /\ ~LoopInDispatch => TimesInvoked(k) = 1

C4_Witness ==
    /\ Len(regs) = 2
    /\ regs[1].typ = RecordMessageResponse
    /\ 2 \in EarlyWildcards
    /\ prev = << Event("frame", RecordMessageResponse, 2, "ok") >>
    /\ CurIsFrame /\ log[1].tag = EndResponse
    /\ ~LoopInDispatch
    /\ InvCbs = << 2 >>

\* C5: messages are delivered in arrival order: every invocation is for the frame
\* decoded last and carries its type, the invocations follow the callbacks
\* looked up for it, and the loop does not go back to read the next frame before
\* every one of them has returned.
C5_ArrivalOrder ==
    /\ \A j \in 1..Len(log) :
          IsInv(log[j]) => (CurIsFrame /\ j > 1 /\ log[j].tag = log[1].tag)
    /\ DispatchFollowsLookup
    /\ (pc["loop"] \in { "select", "read" } /\ CurIsFrame) => idx > Len(callbacks)
    /\ (pc["loop"] \in { "select", "read" } /\ CurIsFrame) =>
          Summary(log)[1].cb = Len(callbacks)

C5_Witness ==
    /\ prev = << Event("frame", HeartbeatResponse, 2, "ok") >>
    /\ CurIsFrame /\ log[1].tag = RecordMessageResponse
    /\ Len(InvEvents) = 2
    /\ pc["loop"] = "read"

\* the fault at position i of the history was handed to the errors channel:
\* the loop is blocked sending it, or a receiver took it right after
Forwarded(i, kind, cb, next) ==
    IF i = Len(log)
      THEN pc["loop"] = "sendErr" /\ errSlot = [kind |-> kind, cb |-> cb] /\ retpc = next
      ELSE log[i + 1] = Event("recv", "-", cb, kind)

C7_DecodeFaultThenDispatch ==
    /\ (log # << >> /\ log[1] = Event("rerr", "-", 0, "json")) =>
          /\ Forwarded(1, "json", 0, "select")
          /\ Len(log) <= 2
          /\ Len(log) = 2 =>
                \/ pc["loop"] \in { "select", "read" }
                \/ LoopLeft /\ receiveStop = "closed"
    /\ (prev # << >> /\ prev[1] = Event("rerr", "-", 0, "json")) =>
          /\ prev = << Event("rerr", "-", 0, "json"), Event("recv", "-", 0, "json") >>
          /\ DispatchFollowsLookup

C7_Witness ==
    /\ closed = 0
    /\ prev = << Event("rerr", "-", 0, "json"), Event("recv", "-", 0, "json") >>
    /\ CurIsFrame /\ log[1].tag = RecordMessageResponse
    /\ Len(InvEvents) = 2
    /\ pc["loop"] = "read"

IsFault(ev) == ev.e = "rerr" \/ IsFailure(ev)

\* what the loop sends for a fault event, and where it goes on afterwards
FaultKind(ev) == IF ev.e = "rerr" THEN ev.res ELSE "cb"
FaultNext(ev) == IF ev.e = "rerr" THEN "select" ELSE "dispatch"

\* C9: the errors channel is unbuffered and no fault is dropped: every fault
\* (transport, decode or listener) is either being sent by the blocked loop or
\* was received before anything else happened (no frame read, no listener
\* invoked in between), and every fault received is one that occurred.
C9_UnbufferedNoDrop ==
    /\ \A i \in 1..Len(log) :
          IsFault(log[i]) =>
              Forwarded(i, FaultKind(log[i]), log[i].cb, FaultNext(log[i]))
    /\ \A i \in 1..Len(log) :
          log[i].e = "recv" =>
              /\ i > 1
              /\ IsFault(log[i - 1])
              /\ log[i].res = FaultKind(log[i - 1])
              /\ log[i].cb = log[i - 1].cb
    /\ (prev # << >> /\ prev[1].e = "rerr") =>
          prev = << prev[1], Event("recv", "-", 0, prev[1].res) >>
    /\ pc["loop"] = "sendErr" <=> errSlot # NoErr
    /\ pc["loop"] = "sendErr" => (log # << >> /\ IsFault(log[Len(log)]))

C9_Witness ==
    /\ pc["loop"] = "sendErr"
    /\ errSlot.kind = "cb"
    /\ idx <= Len(callbacks)
    /\ nClose = 1 /\ pc["caller"] = "idle" /\ released = 1

\* C3 (as claimed): after Close was invoked on an open session the loop
\* eventually exits.
C3_CloseHaltsLoop == (closed = 1) ~> (pc["loop"] = "exited")

\* C3 (amended): after Close was invoked on an open session the loop eventually
\* exits, provided the faults it sends are received from Err().
C3_CloseHaltsDrainedLoop ==
    WF_vars(RecvErr) => ((closed = 1) ~> (pc["loop"] = "exited"))

C3_Witness ==
    /\ pc["loop"] = "exited"
    /\ closeRet["loop"] = "nil"
    /\ released = 1
    /\ log # << >> /\ log[Len(log)].e = "recv"

(* --------------------------- session creation -------------------------- *)
\* C11: when the handshake fails OpenLiveConnection returns the fault itself
\* (the caller is not handed the session before the outcome is there), c.conn
\* stays nil and readLoop is never started: no frame is read and no listener
\* is invoked on that session, whatever the caller does with it afterwards.
C11_FailedDialStartsNothing ==
    /\ startErr = "none" <=> pc["caller"] = "Open"
    /\ startErr # "nil" =>
          /\ pc["loop"] = "notstarted"
          /\ conn = "nil"
          /\ nread = 0
          /\ log = << >> /\ prev = << >>
          /\ released = 0
    /\ pc["loop"] # "notstarted" => (startErr = "nil" /\ conn # "nil")

C11_Witness ==
    /\ startErr = "connect failure"
    /\ Len(listeners[RecordMessageResponse]) = MaxOn
    /\ pc["caller"] = "panicked"
    /\ receiveStop = "closed"

HasPrefix(s, p) == Len(p) <= Len(s) /\ SubSeq(s, 1, Len(p)) = p
HasSuffix(s, p) == Len(p) <= Len(s) /\ SubSeq(s, Len(s) - Len(p) + 1, Len(s)) = p

Built == startErr # "none"

\* C13 (as claimed): the endpoint of the example writes the spaces of the query
\* as %20.
C13_ExampleEndpointPercent ==
    (Built /\ config = ExampleConfig) =>
        endpoint = << "w", "s", "s", ":", "/", "/", "e", "x", "a", "m", "p", "l", "e", ".", "c", "o", "m", "/", "a", "p", "i", "/", "w", "s", "/", "v", "1", "/", "s", "q", "l", "/", "e", "x", "e", "c", "u", "t", "e", "?", "s", "q", "l", "=", "S", "E", "L", "E", "C", "T", "%", "2", "0", "%", "2", "A", "%", "2", "0", "F", "R", "O", "M", "%", "2", "0", "t", "&", "t", "o", "k", "e", "n", "=", "a", "b", "c", "&", "l", "i", "v", "e", "=", "t", "r", "u", "e" >>

SqlParam == << "?", "s", "q", "l", "=" >>

\* the part of the endpoint between ?sql= and &token=
EncodedQuery ==
    LET i == Index(endpoint, SqlParam)
        rest == SubSeq(endpoint, i + Len(SqlParam), Len(endpoint))
        j == Index(rest, TokenParam)
    IN  SubSeq(rest, 1, j - 1)

\* what follows the first &token=
AfterToken ==
    LET j == Index(endpoint, TokenParam)
    IN  SubSeq(endpoint, j + Len(TokenParam), Len(endpoint))

EscapedChars == { " ", "%", "&", "*", "+", "/", ":", "=" }
HexDigits == { "0", "2", "3", "5", "6", "A", "B", "D", "F" }

RECURSIVE QueryUnescape(_)
\* the decoding of a query component: + is a space, %XX the character of byte XX
QueryUnescape(e) ==
    IF e = << >> THEN << >>
    ELSE IF Head(e) = "+" THEN << " " >> \o QueryUnescape(Tail(e))
    ELSE IF Head(e) = "%"
      THEN << CHOOSE ch \in EscapedChars : Hex(ch) = SubSeq(e, 2, 3) >>
               \o QueryUnescape(SubSeq(e, 4, Len(e)))
    ELSE << Head(e) >> \o QueryUnescape(Tail(e))

\* the host after a leading https://
HostRest == SubSeq(config.Host, Len(HttpsScheme) + 1, Len(config.Host))

\* C13 (amended): the endpoint of the example is
\* wss://example.com/api/ws/v1/sql/execute?sql=SELECT+%2A+FROM+t&token=abc&live=true
\* (a space of the query is written as +); in general a leading https:// is
\* rewritten to wss://, the query text is URL-encoded (only unreserved
\* characters, + and %XX, and it decodes to the query), the token follows
\* &token=, and &live=true is appended if and only if live mode is requested.
C13_EndpointBuilt ==
    Built =>
        /\ config = ExampleConfig =>
              endpoint = << "w", "s", "s", ":", "/", "/", "e", "x", "a", "m", "p", "l", "e", ".", "c", "o", "m", "/", "a", "p", "i", "/", "w", "s", "/", "v", "1", "/", "s", "q", "l", "/", "e", "x", "e", "c", "u", "t", "e", "?", "s", "q", "l", "=", "S", "E", "L", "E", "C", "T", "+", "%", "2", "A", "+", "F", "R", "O", "M", "+", "t", "&", "t", "o", "k", "e", "n", "=", "a", "b", "c", "&", "l", "i", "v", "e", "=", "t", "r", "u", "e" >>
        /\ HasPrefix(config.Host, HttpsScheme) =>
              /\ HasPrefix(endpoint, WssScheme)
              /\ Index(HostRest, HttpsScheme) = 0 =>
                    HasPrefix(endpoint, WssScheme \o HostRest \o ExecutePath)
        /\ ~HasPrefix(config.Host, HttpsScheme) =>
              HasPrefix(endpoint, SubSeq(config.Host, 1, 3))
        /\ Index(endpoint, SqlParam) > 0
        /\ \A n \in 1..Len(EncodedQuery) :
              EncodedQuery[n] \in Unreserved \cup HexDigits \cup { "+", "%" }
        /\ QueryUnescape(EncodedQuery) = config.SQL
        /\ HasPrefix(AfterToken, config.Token)
        /\ HasSuffix(endpoint, LiveParam) <=> config.Live
        /\ Len(AfterToken) = Len(config.Token) + (IF config.Live THEN Len(LiveParam) ELSE 0)

C13_Witness ==
    /\ Built
    /\ config = ExampleConfig
    /\ HasPrefix(endpoint, WssScheme)
    /\ Index(endpoint, << "+", "%", "2", "A", "+" >>) > 0
    /\ HasSuffix(endpoint, LiveParam)

(* ------------------------------ closed flag ---------------------------- *)
\* C12: the closed flag is monotonic: it is 0 or 1, once it is 1 no step takes
\* it back to 0, and the only change it ever makes is the one from 0 to 1, which
\* therefore happens at most once in a session (a second Close that passed the
\* checkpoint in a race stores 1 over 1).
C12_ClosedMonotonic ==
    /\ [](closed \in { 0, 1 })
    /\ [][ /\ closed = 1 => closed' = 1
           /\ closed' # closed => (closed = 0 /\ closed' = 1) ]_vars

C12_Witness ==
    /\ passed = 2
    /\ closed = 1
    /\ \E t \in Threads : pc[t] = "panicked"

(* ----------------------------- quota delete ---------------------------- *)
Contains(s, w) == Index(s, w) > 0

\* C14: for both delete commands and every target, a run that succeeded
\* reports "deleted" when it was given no positional argument and "updated"
\* when it was given one or more.
C14_DeleteReportsAction ==
    (cli.stage = "done" /\ cli.ret = "nil") =>
        /\ cli.args = << >> =>
              (Contains(cli.out, Delete \o LetterD) /\ ~Contains(cli.out, Update \o LetterD))
        /\ cli.args # << >> =>
              (Contains(cli.out, Update \o LetterD) /\ ~Contains(cli.out, Delete \o LetterD))

(* ------------------------------ registry ------------------------------- *)
StrictlyIncreasing(q) == \A i, j \in 1..Len(q) : i < j => q[i] < q[j]

\* C15: the listeners of a decoded message are invoked one at a time on the
\* loop, in the order of their registrations (the n-th invocation is the n-th
\* registration made for the type; On calls are numbered in the order made),
\* each at most once for the message.
C15_RegistrationOrder ==
    /\ \A t \in ConcreteTypes : StrictlyIncreasing(listeners[t])
    /\ CurIsFrame =>
          /\ StrictlyIncreasing(InvCbs)
          /\ Len(InvCbs) <= Len(listeners[log[1].tag])
          /\ \A n \in 1..Len(InvCbs) : InvCbs[n] = listeners[log[1].tag][n]
          /\ ~LoopInLookup => Len(InvCbs) = idx - 1
          /\ log[Len(log)].e = "inv" =>
                (log[Len(log)].res = "fault" <=> pc["loop"] = "sendErr")

C15_Witness ==
    /\ Len(regs) = 2
    /\ regs[1].typ = WildcardResponse /\ regs[2].typ = RecordMessageResponse
    /\ CurIsFrame /\ log[1].tag = RecordMessageResponse
    /\ InvCbs = << 1, 2 >>
    /\ pc["loop"] = "select"

\* the registrations for the type of the current frame that were completed (the
\* append under the lock) after the loop looked its listeners up
LateRegistrations ==
    { listeners[resp][n] : n \in (Len(callbacks) + 1)..Len(listeners[resp]) }

\* C18: registration concurrent with the loop: a registration completed after
\* the lookup for message m is not invoked for m; every lookup takes all the
\* registrations completed by then, so later messages of the type reach it; no
\* registration is invoked twice for one message; and the registrations made
\* earlier are invoked as if nothing had been added.
C18_NonRetroactiveAtMostOnce ==
    /\ [](/\ \A k \in 1..MaxOn + 1 : TimesInvoked(k) <= 1
          /\ (CurIsFrame /\ ~LoopInLookup) =>
                /\ \A k \in LateRegistrations : TimesInvoked(k) = 0
                /\ callbacks = SubSeq(listeners[resp], 1, Len(callbacks))
                /\ InvCbs = SubSeq(callbacks, 1, idx - 1)
                /\ ~LoopInDispatch => InvCbs = callbacks)
    /\ [][ (pc["loop"] = "lookup" /\ pc'["loop"] # "lookup") =>
               (callbacks' = listeners[resp] /\ listeners' = listeners) ]_vars

C18_Witness ==
    /\ CurIsFrame /\ log[1].tag = RecordMessageResponse
    /\ PrevIsFrame /\ prev[1].tag = RecordMessageResponse /\ prev[1].cb = 0
    /\ callbacks = << 1 >>
    /\ listeners[RecordMessageResponse] = << 1, 2 >>
    /\ regs[2].done
    /\ pc["loop"] = "select"
    /\ InvCbs = << 1 >>

\* the number of times callback k stands in the list of type t
Entries(t, k) == Cardinality({ n \in 1..Len(listeners[t]) : listeners[t][n] = k })

\* C19: the registry never holds an entry under the wildcard; a wildcard
\* registration that returned has put its callback exactly once in each of
\* the seven concrete lists, a concrete one once in the list of its type and
\* nowhere else; and no step removes or reorders what a list holds.
C19_NoWildcardEntry ==
    /\ [](/\ listeners[WildcardResponse] = << >>
          /\ \A k \in 1..Len(regs) :
                regs[k].done =>
                    \A t \in ConcreteTypes :
                        Entries(t, k) =
                            IF regs[k].typ = WildcardResponse \/ regs[k].typ = t
                              THEN 1 ELSE 0)
    /\ [][ \A t \in ResponseTypes : IsPrefix(listeners[t], listeners'[t]) ]_vars

C19_Witness ==
    /\ Len(regs) = 2
    /\ regs[1].typ = RecordMessageResponse /\ regs[2].typ = WildcardResponse
    /\ regs[2].done
    /\ listeners[RecordMessageResponse] = << 1, 2 >>
    /\ listeners[EndResponse] = << 2 >>

(* ------------------------------ loop exit ------------------------------ *)
\* C17 (as claimed): whenever the loop has exited, the session is closed, the
\* termination signal is raised and the transport has been released exactly
\* once; and the loop leaves only after the termination signal was raised.
C17_ExitedMeansReleased ==
    /\ pc["loop"] = "exited" =>
          (closed = 1 /\ receiveStop = "closed" /\ released = 1)
    /\ LoopLeft => receiveStop = "closed"

\* C17 (amended): whenever the loop has exited, the session is closed and the
\* termination signal is raised, and the transport has been released at most
\* once: exactly once, or the Close call that raised the signal is about to
\* release it (the loop can exit between that call's close(receiveStop) and
\* its conn.Close()).  The loop's own deferred Close changes nothing.  The loop
\* leaves only from its select with the termination signal raised, never
\* because of a transport, decode or listener fault.
C17_ExitAfterSignal ==
    /\ [](/\ released <= 1
          /\ pc["loop"] = "exited" =>
                /\ closed = 1 /\ receiveStop = "closed"
                /\ released = 1 \/ \E t \in Threads : pc[t] = "Close.release"
                /\ ~effects["loop"] /\ closeRet["loop"] = "nil"
          /\ LoopLeft => receiveStop = "closed")
    /\ [][ (~LoopLeft /\ LoopLeft') =>
               (pc["loop"] = "select" /\ receiveStop = "closed") ]_vars

C17_Witness ==
    /\ pc["loop"] = "exited"
    /\ released = 0
    /\ pc["caller"] = "Close.release"
    /\ log # << >> /\ log[1].e = "rerr"

\* C20: cancellation is cooperative.  The listeners of a message are all
\* invoked whether or not Close happens during its dispatch (a step of the
\* range loop with callbacks left invokes the next one); once the termination
\* signal is raised the loop begins no read, so at most the message whose read
\* was already under way is still dispatched; and after the loop has observed
\* the signal it reads and invokes nothing.
C20_CooperativeCancellation ==
    /\ []((CurIsFrame /\ ~LoopInDispatch) => InvCbs = callbacks)
    /\ [][ /\ (pc["loop"] = "dispatch" /\ idx <= Len(callbacks) /\ idx' # idx) =>
                 (log' = Append(log, log'[Len(log')]) /\ IsInv(log'[Len(log')])
                    /\ log'[Len(log')].cb = callbacks[idx])
           /\ receiveStop = "closed" =>
                 (pc'["loop"] = "read" => pc["loop"] = "read")
           /\ (pc["loop"] = "select" /\ pc'["loop"] # "select") =>
                 pc'["loop"] = (IF receiveStop = "closed" THEN "Close.load" ELSE "read")
           /\ LoopLeft => (LoopLeft' /\ hist' = hist /\ nread' = nread) ]_vars

C20_Witness ==
    /\ receiveStop = "closed"
    /\ released = 1
    /\ nClose = 1 /\ pc["caller"] = "idle"
    /\ pc["loop"] = "dispatch"
    /\ Len(callbacks) = 2 /\ idx = 2
    /\ InvCbs = << 1 >>

(* --------------------------- broken transport -------------------------- *)
\* C16: when the transport has failed for good (every read from then on
\* reports a transport fault), the owner receives the faults and nobody calls
\* Close (neither the owner nor Wait), the loop eventually exits and the
\* session is closed with the transport released.
C16_SelfTerminates ==
    [](nClose = 0 /\ interruptSignal # "fired") =>
        ((conn = "broken") ~>
            (pc["loop"] = "exited" /\ closed = 1 /\ released = 1))

(* ----------------------- listeners calling back ------------------------ *)
\* readLoop is running a listener, or between two listeners of a message
LoopRunsListener ==
    \/ pc["loop"] \in { "dispatch", "cb.On.lock", "cb.On.append", "cb.return" }
    \/ pc["loop"] = "sendErr" /\ retpc = "dispatch"
    \/ InClose("loop") /\ cbCall.op = "Close"

\* the On and Close calls listeners made during the dispatch of the current frame
OnByListener == { i \in 1..Len(log) : log[i].e = "on" }
CloseByListener == { i \in 1..Len(log) : log[i].e = "close" }

\* C21: the registry lock is not held while listeners run.  A listener that
\* calls On waits for the lock only while another goroutine is inside its own
\* append (which needs nothing to finish), never for a lock readLoop holds; a
\* listener's Close runs readLoop's goroutine through Close and comes back to
\* the listener; the callback such an On registers during the dispatch of a
\* message is not invoked for that message, and the listeners looked up for
\* the message are all invoked once the dispatch is over.
C21_CallbacksMayCallBack ==
    /\ LoopRunsListener => mu # "r"
    /\ pc["loop"] = "cb.On.lock" =>
          (mu = "free" \/ (mu = "w" /\ pc["caller"] = "On.append"))
    /\ pc["loop"] = "cb.On.append" => (mu = "w" /\ pc["caller"] # "On.append")
    /\ cbCall.op = "Close" => (InClose("loop") \/ pc["loop"] = "cb.return")
    /\ pc["loop"] # "panicked"
    /\ \A i \in OnByListener : TimesInvoked(log[i].cb) = 0
    /\ (CurIsFrame /\ pc["loop"] \in { "select", "read", "exited" }) =>
          InvCbs = callbacks

C21_Witness ==
    /\ pc["loop"] = "exited"
    /\ CurIsFrame /\ log[1].tag = RecordMessageResponse
    /\ \E i \in OnByListener : log[i].cb = MaxOn + 1 /\ log[i].tag = WildcardResponse
    /\ CloseByListener # {}
    /\ InvCbs = << 1, 2 >>
    /\ listeners[RecordMessageResponse] = << 1, 2, MaxOn + 1 >>
    /\ released = 1

====
